---- MODULE Spec2Model ----
(***************************************************************************)
(* A model of wiki.go: a file-backed wiki served over net/http.            *)
(*                                                                         *)
(* Strings are sequences of tokens.  A token is one character ("/", "a",   *)
(* "Z", "0", "!", ".") or one of the words "view", "edit", "save", which   *)
(* stand for those runs of lower-case letters: a word is alphanumeric, so  *)
(* "/view/view" is a well-formed path whose title is "view".  No token is  *)
(* a concatenation of other tokens, so two token sequences are equal       *)
(* exactly when the strings they spell are equal.                          *)
(***************************************************************************)
EXTENDS Integers, Sequences, FiniteSets, TLC

VARIABLES
    phase,      \* where the process is: "init", "main", "serving", "panicked", "fatal"
    templates,  \* the package-level template set (wiki.go:25)
    mux,        \* http.DefaultServeMux: the registered (pattern, handler) pairs
    files,      \* the data/ directory: file name -> contents
    req,        \* the request handled last
    resp,       \* the response written to it
    called,     \* the domain handlers invoked for it, with the title each was given
    ioLog,      \* the os.ReadFile / os.WriteFile calls made for it
    lastSaved,  \* history: title -> body of the latest save request answered 302
    conns       \* SpecConc only: the save requests in flight

vars == <<phase, templates, mux, files, req, resp, called, ioLog, lastSaved, conns>>

---------------------------------------------------------------------------
(* Bounds *)

\* Longest request path explored exhaustively, in tokens after the leading "/".
MaxPathLen == 4
\* Longest form body, in bytes, of the overlapping saves.
MaxBodyLen == 2

---------------------------------------------------------------------------
(* Constants of net/http used by wiki.go *)

StatusOK == 200
StatusMovedPermanently == 301
StatusFound == 302
StatusNotFound == 404
StatusInternalServerError == 500

---------------------------------------------------------------------------
(* Strings *)

Slash == "/"
Lower == {"a", "view", "edit", "save"}
Upper == {"Z"}
Digit == {"0"}
Punct == {"!", ".", Slash}
PathChars == Lower \cup Upper \cup Digit \cup Punct
Bytes == {"x", "y"}

Min(a, b) == IF a < b THEN a ELSE b

HasPrefix(s, p) == Len(s) >= Len(p) /\ SubSeq(s, 1, Len(p)) = p

Prefix(s, n) == SubSeq(s, 1, Min(n, Len(s)))

\* All sequences over S of length at most n.
RECURSIVE SeqsUpTo(_, _)
SeqsUpTo(S, n) ==
    IF n = 0 THEN {<< >>}
    ELSE LET shorter == SeqsUpTo(S, n - 1)
         IN  shorter \cup {Append(s, c) : s \in {t \in shorter : Len(t) = n - 1}, c \in S}

\* An optional form value: url.Values holds a key or does not.
NoValue == [present |-> FALSE, val |-> << >>]
Some(v) == [present |-> TRUE, val |-> v]

---------------------------------------------------------------------------
(* validPath = regexp.MustCompile("^/(edit|save|view)/([a-zA-Z0-9]+)$") *)

\* The character class [a-zA-Z0-9].
IsAlnumPermissive(c) == c \in Lower \cup Upper \cup Digit \cup {"."}
IsAlnum(c) == c \in Lower \cup Upper \cup Digit

\* The alternation (edit|save|view).
IsAction(c) == c \in {"edit", "save", "view"}

\* The length of the longest run of [a-zA-Z0-9] in s starting at position i
\* (the greedy +).
RECURSIVE AlnumRun(_, _)
AlnumRun(s, i) ==
    IF i > Len(s) \/ ~IsAlnum(s[i]) THEN 0 ELSE 1 + AlnumRun(s, i + 1)

\* validPath.FindStringSubmatch(s): << >> for nil, else <<whole, group 1,
\* group 2>> (Go's m[0], m[1], m[2]).  ^ and $ anchor the match at both ends
\* of the text.
FindStringSubmatchUnanchored(s) ==
    IF /\ Len(s) >= 4
       /\ s[1] = Slash
       /\ IsAction(s[2])
       /\ s[3] = Slash
       /\ AlnumRun(s, 4) >= 1
    THEN <<s, <<s[2]>>, SubSeq(s, 4, 3 + AlnumRun(s, 4))>>
    ELSE << >>
FindStringSubmatch(s) ==
    IF /\ Len(s) >= 4
       /\ s[1] = Slash
       /\ IsAction(s[2])
       /\ s[3] = Slash
       /\ AlnumRun(s, 4) >= 1
       /\ 3 + AlnumRun(s, 4) = Len(s)
    THEN <<s, <<s[2]>>, SubSeq(s, 4, Len(s))>>
    ELSE << >>

---------------------------------------------------------------------------
(* http.DefaultServeMux, as main registers it *)

\* path.Clean on a rooted path: the segments of p that remain once empty and
\* "." segments are dropped and ".." has removed the segment before it.
\* `done` is the stack of kept segments, `cur` the segment being read.
PushSegment(done, cur) ==
    IF cur = << >> \/ cur = <<".">> THEN done
    ELSE IF cur = <<".", ".">>
         THEN (IF done = << >> THEN done ELSE SubSeq(done, 1, Len(done) - 1))
         ELSE Append(done, cur)

RECURSIVE CleanSegments(_, _, _, _)
CleanSegments(p, i, done, cur) ==
    IF i > Len(p) THEN PushSegment(done, cur)
    ELSE IF p[i] = Slash THEN CleanSegments(p, i + 1, PushSegment(done, cur), << >>)
    ELSE CleanSegments(p, i + 1, done, Append(cur, p[i]))

RECURSIVE JoinSegments(_)
JoinSegments(segs) ==
    IF segs = << >> THEN << >>
    ELSE <<Slash>> \o Head(segs) \o JoinSegments(Tail(segs))

\* net/http's cleanPath: path.Clean, with the trailing slash put back.
cleanPath(p) ==
    IF p = << >> THEN <<Slash>>
    ELSE LET q    == IF p[1] = Slash THEN p ELSE <<Slash>> \o p
             segs == CleanSegments(q, 1, << >>, << >>)
             np   == IF segs = << >> THEN <<Slash>> ELSE JoinSegments(segs)
         IN  IF q[Len(q)] = Slash /\ np # <<Slash>> THEN Append(np, Slash) ELSE np

\* The three http.HandleFunc calls of main: each pattern ends in "/", so it
\* names a subtree.
Registrations ==
    { [pattern |-> <<Slash, "view", Slash>>, fn |-> "viewHandler"],
      [pattern |-> <<Slash, "edit", Slash>>, fn |-> "editHandler"],
      [pattern |-> <<Slash, "save", Slash>>, fn |-> "saveHandler"] }

\* ServeMux.Handler for a request path: a 301 to the subtree root when the
\* cleaned path is a registered subtree without its trailing slash, a 301 to
\* the cleaned path when the path is not clean, the registered handler whose
\* pattern is a prefix of the path, else the mux's own 404.
ServeMuxHandler(m, path) ==
    LET clean == cleanPath(path)
        hit   == {e \in m : HasPrefix(path, e.pattern)}
    IN  IF \E e \in m : e.pattern = Append(clean, Slash)
        THEN [kind |-> "redirect", to |-> Append(clean, Slash), fn |-> ""]
        ELSE IF clean # path
        THEN [kind |-> "redirect", to |-> clean, fn |-> ""]
        ELSE IF hit # {}
        THEN [kind |-> "handler", to |-> << >>, fn |-> (CHOOSE e \in hit : TRUE).fn]
        ELSE [kind |-> "notfound", to |-> << >>, fn |-> ""]

---------------------------------------------------------------------------
(* Requests and responses *)

Request(method, path, query, post) ==
    [method |-> method, path |-> path, query |-> query, post |-> post]

NoRequest == Request("", << >>, NoValue, NoValue)

Response(status, kind, location, page, msg) ==
    [status |-> status, kind |-> kind, location |-> location, page |-> page, msg |-> msg]

\* type Page struct { Title string; Body []byte }
Page(title, body) == [Title |-> title, Body |-> body]

NoPage == [tmpl |-> << >>, Title |-> << >>, Body |-> << >>]
NoResponse == Response(0, "", << >>, NoPage, "")

\* http.NotFound(w, r)
NotFound == Response(StatusNotFound, "notfound", << >>, NoPage, "404 page not found")

\* http.Redirect(w, r, url, code)
Redirect(url, code) == Response(code, "redirect", url, NoPage, "")

\* http.Error(w, msg, code)
Error(msg, code) == Response(code, "error", << >>, NoPage, msg)

\* r.FormValue("body"): the first value of the key, the POST body's before the
\* URL query's; the body of a request is parsed only for POST, PUT and PATCH;
\* "" when the key is absent.
FormValue(r) ==
    IF r.method \in {"POST", "PUT", "PATCH"} /\ r.post.present THEN r.post.val
    ELSE IF r.query.present THEN r.query.val
    ELSE << >>

---------------------------------------------------------------------------
(* The page store: files under data/ *)

NoFiles == [f \in {} |-> << >>]

\* "data/" + title + ".txt"
Filename(title) == <<"data", Slash>> \o title \o <<".txt">>

\* os.OpenFile(name, O_WRONLY|O_CREATE|O_TRUNC, perm): the file exists and is
\* empty afterwards.
OpenTrunc(fs, name) ==
    [f \in DOMAIN fs \cup {name} |-> IF f = name THEN << >> ELSE fs[f]]

\* f.Write(data) on a descriptor at offset 0: the bytes replace the first
\* Len(data) bytes of the file and leave the rest.
WriteAt0(content, data) ==
    data \o SubSeq(content, Len(data) + 1, Len(content))

\* os.WriteFile(name, data, 0600): every way the call can end.  The open fails
\* and the file is untouched; or the open has created or truncated the file
\* and the write (or the close) fails after n bytes; or all of data is written.
WriteFile(fs, name, data) ==
    LET opened == OpenTrunc(fs, name)
    IN  {[files |-> fs, err |-> "open failed"]}
        \cup {[files |-> [opened EXCEPT ![name] = WriteAt0(opened[name], Prefix(data, n))],
               err   |-> "write failed"] : n \in 0 .. Len(data)}
        \cup {[files |-> [opened EXCEPT ![name] = WriteAt0(opened[name], data)],
               err   |-> ""]}

\* func (p *Page) save() error
save(fs, p) ==
    LET name == Filename(p.Title)
    IN  {[files |-> w.files, err |-> w.err,
          io |-> <<[op |-> "WriteFile", name |-> name, title |-> p.Title, err |-> w.err]>>]
         : w \in WriteFile(fs, name, p.Body)}

\* os.ReadFile(name): an error when the file does not exist; the contents, or
\* an error, when it does.
ReadFile(fs, name) ==
    {[data |-> << >>, err |-> "open failed"]}
    \cup (IF name \in DOMAIN fs THEN {[data |-> fs[name], err |-> ""]} ELSE {})

\* func loadPage(title string) (*Page, error)
loadPage(fs, title) ==
    LET filename == Filename(title)
    IN  {[err  |-> rd.err,
          page |-> IF rd.err # "" THEN Page(<< >>, << >>) ELSE Page(title, rd.data),
          io   |-> <<[op |-> "ReadFile", name |-> filename, title |-> title, err |-> rd.err]>>]
         : rd \in ReadFile(fs, filename)}

-----
(* Templates *)

\* "tmpl/edit.html", "tmpl/view.html": a template is named by its file's base name.
TemplateFiles == {<<"edit", ".html">>, <<"view", ".html">>}

\* templates.ExecuteTemplate(w, name, p): an error when the set holds no
\* template of that name, else the template's output, which embeds the page's
\* title and body.
ExecuteTemplate(tmpls, name, p) ==
    IF name \in tmpls
    THEN [err |-> "", out |-> [tmpl |-> name, Title |-> p.Title, Body |-> p.Body]]
    ELSE [err |-> "template is undefined", out |-> NoPage]

\* func renderTemplate(w http.ResponseWriter, tmpl string, p *Page)
renderTemplate(tmpls, tmpl, p) ==
    LET x == ExecuteTemplate(tmpls, <<tmpl, ".html">>, p)
    IN  IF x.err # "" THEN Error(x.err, StatusInternalServerError)
        ELSE Response(StatusOK, "page", << >>, x.out, "")

---------------------------------------------------------------------------
(* Handlers.  Each yields the set of ways it can end, one for each answer of
   the operating system: the response, the files afterwards and the store
   calls made. *)

Outcome(response, fs, io) == [resp |-> response, files |-> fs, io |-> io]

\* func viewHandler(w, r, title)
viewHandlerNoRedirect(tmpls, fs, r, title) ==
    {Outcome(renderTemplate(tmpls, "view",
                            IF l.err # "" THEN Page(title, << >>) ELSE l.page),
             fs, l.io)
     : l \in loadPage(fs, title)}
viewHandler(tmpls, fs, r, title) ==
    {IF l.err # ""
     THEN Outcome(Redirect(<<Slash, "edit", Slash>> \o title, StatusFound), fs, l.io)
     ELSE Outcome(renderTemplate(tmpls, "view", l.page), fs, l.io)
     : l \in loadPage(fs, title)}

\* func editHandler(w, r, title)
editHandlerRedirecting(tmpls, fs, r, title) ==
    {IF l.err # ""
     THEN Outcome(Redirect(<<Slash, "edit", Slash>> \o title, StatusFound), fs, l.io)
     ELSE Outcome(renderTemplate(tmpls, "edit", l.page), fs, l.io)
     : l \in loadPage(fs, title)}
editHandlerCreating(tmpls, fs, r, title) ==
    UNION {IF l.err # ""
           THEN {Outcome(renderTemplate(tmpls, "edit", Page(title, << >>)),
                         w.files, l.io \o w.io)
                 : w \in save(fs, Page(title, << >>))}
           ELSE {Outcome(renderTemplate(tmpls, "edit", l.page), fs, l.io)}
           : l \in loadPage(fs, title)}
editHandler(tmpls, fs, r, title) ==
    {Outcome(renderTemplate(tmpls, "edit",
                            IF l.err # "" THEN Page(title, << >>) ELSE l.page),
             fs, l.io)
     : l \in loadPage(fs, title)}

\* func saveHandler(w, r, title)
saveHandlerIgnoringErr(tmpls, fs, r, title) ==
    LET body == FormValue(r)
    IN  {Outcome(Redirect(<<Slash, "view", Slash>> \o title, StatusFound), s.files, s.io)
         : s \in save(fs, Page(title, body))}
saveHandler(tmpls, fs, r, title) ==
    LET body == FormValue(r)
    IN  {IF s.err # ""
         THEN Outcome(Error(s.err, StatusInternalServerError), s.files, s.io)
         ELSE Outcome(Redirect(<<Slash, "view", Slash>> \o title, StatusFound), s.files, s.io)
         : s \in save(fs, Page(title, body))}

\* The fn a closure of makeHandler was built around.
Call(fn, tmpls, fs, r, title) ==
    CASE fn = "viewHandler" -> viewHandler(tmpls, fs, r, title)
      [] fn = "editHandler" -> editHandler(tmpls, fs, r, title)
      [] fn = "saveHandler" -> saveHandler(tmpls, fs, r, title)

\* func makeHandler(fn) http.HandlerFunc: the closure's body.
makeHandler(fn, tmpls, fs, r) ==
    LET m == FindStringSubmatch(r.path)
    IN  IF m = << >>
        THEN {[out |-> Outcome(NotFound, fs, << >>), called |-> << >>]}
        ELSE {[out |-> o, called |-> <<[fn |-> fn, title |-> m[3]]>>]
              : o \in Call(fn, tmpls, fs, r, m[3])}

\* What the server does with one request: http.ListenAndServe(":8080", nil)
\* hands it to the DefaultServeMux.
ServeHTTP(tmpls, m, fs, r) ==
    LET h == ServeMuxHandler(m, r.path)
    IN  CASE h.kind = "redirect" ->
               {[out |-> Outcome(Redirect(h.to, StatusMovedPermanently), fs, << >>),
                 called |-> << >>]}
          [] h.kind = "notfound" ->
               {[out |-> Outcome(NotFound, fs, << >>), called |-> << >>]}
          [] h.kind = "handler" -> makeHandler(h.fn, tmpls, fs, r)

-----
(* Startup *)

\* template.ParseFiles("tmpl/edit.html", "tmpl/view.html"): the set holding
\* both templates, or nil and an error when either file fails to load or parse.
ParseFiles(okEdit, okView) ==
    IF okEdit /\ okView THEN [t |-> TemplateFiles, err |-> ""]
    ELSE [t |-> {}, err |-> "parse failed"]

\* template.Must(t, err): panics on a non-nil error, else returns t.
MustIgnoringErr(p) == [t |-> p.t, panic |-> FALSE]
Must(p) == [t |-> p.t, panic |-> p.err # ""]

Init ==
    /\ phase = "init"
    /\ templates = {}
    /\ mux = {}
    /\ files = NoFiles
    /\ req = NoRequest
    /\ resp = NoResponse
    /\ called = << >>
    /\ ioLog = << >>
    /\ lastSaved = NoFiles
    /\ conns = << >>

\* var templates = template.Must(template.ParseFiles(...)): package
\* initialisation, which runs before main.
InitTemplates ==
    /\ phase = "init"
    /\ \E okEdit \in BOOLEAN, okView \in BOOLEAN :
         LET t == Must(ParseFiles(okEdit, okView))
         IN  /\ templates' = t.t
             /\ phase' = IF t.panic THEN "panicked" ELSE "main"
    /\ UNCHANGED <<mux, files, req, resp, called, ioLog, lastSaved, conns>>

\* func main(): the three registrations, then ListenAndServe, which returns
\* only with an error (log.Fatal ends the process).
main ==
    /\ phase = "main"
    /\ mux' = Registrations
    /\ \E listening \in BOOLEAN :
         phase' = IF listening THEN "serving" ELSE "fatal"
    /\ UNCHANGED <<templates, files, req, resp, called, ioLog, lastSaved, conns>>

---------------------------------------------------------------------------
(* Serving one request at a time *)

\* History: a request to /save/<title> answered 302 is the latest successful
\* save of that title.
RecordSave(hist, r, response) ==
    IF /\ response.status = StatusFound
       /\ Len(r.path) >= 4
       /\ SubSeq(r.path, 1, 3) = <<Slash, "save", Slash>>
    THEN LET t == SubSeq(r.path, 4, Len(r.path))
             b == IF r.post.present THEN r.post.val
                  ELSE IF r.query.present THEN r.query.val ELSE << >>
         IN  [x \in DOMAIN hist \cup {t} |-> IF x = t THEN b ELSE hist[x]]
    ELSE hist

\* The server answers request r.
Serve(r) ==
    \E s \in ServeHTTP(templates, mux, files, r) :
        /\ req' = r
        /\ resp' = s.out.resp
        /\ files' = s.out.files
        /\ ioLog' = s.out.io
        /\ called' = s.called
        /\ lastSaved' = RecordSave(lastSaved, r, s.out.resp)
        /\ UNCHANGED <<phase, templates, mux, conns>>

SampleTitles == {<<"a">>, <<"Z", "0">>}

SamplePaths ==
    {<<Slash, w, Slash>> \o t : w \in {"view", "edit", "save"}, t \in SampleTitles}
    \cup { <<Slash, "view">>,
           <<Slash, "a", Slash, "a">>,
           <<Slash, "save", Slash, "a", "!">>,
           <<Slash, "save", Slash, Slash, "a">> }

SavePaths == {p \in SamplePaths : p[2] = "save"}

\* A GET carries no body; a POST carries a form with or without the field.
SampleRequests ==
    {Request(m, p, NoValue, NoValue) : m \in {"GET", "POST"}, p \in SamplePaths}
    \cup {Request("GET", p, Some(<<"x">>), NoValue) : p \in SavePaths}
    \cup {Request("POST", p, NoValue, Some(b)) : p \in SavePaths, b \in {<< >>, <<"y", "x">>}}
    \cup {Request("POST", p, Some(<<"x">>), Some(<<"y", "x">>)) : p \in SavePaths}

Handle ==
    /\ phase = "serving"
    /\ \E r \in SampleRequests : Serve(r)

Next == InitTemplates \/ main \/ Handle

Spec == Init /\ [][Next]_vars

---------------------------------------------------------------------------
(* Every path up to MaxPathLen, one request each *)

AllPaths == {<<Slash>> \o s : s \in SeqsUpTo(PathChars, MaxPathLen)}

RouteRequests ==
    {Request("GET", p, NoValue, NoValue) : p \in AllPaths}
    \cup {Request("POST", p, NoValue, Some(<<"x">>)) : p \in AllPaths}

\* The server is up, one page is stored, and a request arrives.
InitRoute ==
    /\ phase = "serving"
    /\ templates = TemplateFiles
    /\ mux = Registrations
    /\ files = (Filename(<<"a">>) :> <<"y">>)
    /\ lastSaved = (<<"a">> :> <<"y">>)
    /\ req \in RouteRequests
    /\ resp = NoResponse
    /\ called = << >>
    /\ ioLog = << >>
    /\ conns = << >>

HandlePending ==
    /\ phase = "serving"
    /\ resp = NoResponse
    /\ Serve(req)

NextRoute == HandlePending

SpecRoute == InitRoute /\ [][NextRoute]_vars

---------------------------------------------------------------------------
(* Two save requests for one title, overlapping: net/http runs each request's
   handler in its own goroutine, and os.WriteFile is an open, a write and a
   close. *)

Conn(r) ==
    [req |-> r, pc |-> "accepted", title |-> << >>, body |-> << >>, err |-> "",
     resp |-> NoResponse]

Bodies == SeqsUpTo(Bytes, MaxBodyLen)

InitConc ==
    /\ phase = "serving"
    /\ templates = TemplateFiles
    /\ mux = Registrations
    /\ files = NoFiles
    /\ lastSaved = NoFiles
    /\ req = NoRequest
    /\ resp = NoResponse
    /\ called = << >>
    /\ ioLog = << >>
    /\ \E b1 \in Bodies, b2 \in Bodies :
         conns = << Conn(Request("POST", <<Slash, "save", Slash, "a">>, NoValue, Some(b1))),
                    Conn(Request("POST", <<Slash, "save", Slash, "a">>, NoValue, Some(b2))) >>

\* The mux and makeHandler's closure hand the request to saveHandler, which
\* reads the form field and builds the Page (wiki.go:93-94).
ConnAccept(i) ==
    /\ conns[i].pc = "accepted"
    /\ ServeMuxHandler(mux, conns[i].req.path) =
         [kind |-> "handler", to |-> << >>, fn |-> "saveHandler"]
    /\ FindStringSubmatch(conns[i].req.path) # << >>
    /\ conns' = [conns EXCEPT ![i].pc = "open",
                              ![i].title = FindStringSubmatch(conns[i].req.path)[3],
                              ![i].body = FormValue(conns[i].req)]
    /\ UNCHANGED <<phase, templates, mux, files, req, resp, called, ioLog, lastSaved>>

\* os.WriteFile's open: O_WRONLY|O_CREATE|O_TRUNC.
ConnOpen(i) ==
    /\ conns[i].pc = "open"
    /\ \E ok \in BOOLEAN :
         /\ files' = IF ok THEN OpenTrunc(files, Filename(conns[i].title)) ELSE files
         /\ conns' = [conns EXCEPT ![i].pc = IF ok THEN "write" ELSE "respond",
                                   ![i].err = IF ok THEN "" ELSE "open failed"]
    /\ UNCHANGED <<phase, templates, mux, req, resp, called, ioLog, lastSaved>>

\* os.WriteFile's write and close: all of the body, or an error after n bytes.
ConnWrite(i) ==
    /\ conns[i].pc = "write"
    /\ \E ok \in BOOLEAN, n \in 0 .. Len(conns[i].body) :
         LET written == IF ok THEN conns[i].body ELSE Prefix(conns[i].body, n)
         IN  /\ files' = [files EXCEPT ![Filename(conns[i].title)] = WriteAt0(@, written)]
             /\ conns' = [conns EXCEPT ![i].pc = "respond",
                                       ![i].err = IF ok THEN "" ELSE "write failed"]
    /\ UNCHANGED <<phase, templates, mux, req, resp, called, ioLog, lastSaved>>

\* wiki.go:96-100
ConnRespond(i) ==
    /\ conns[i].pc = "respond"
    /\ conns' = [conns EXCEPT
                   ![i].pc = "done",
                   ![i].resp = IF conns[i].err # ""
                               THEN Error(conns[i].err, StatusInternalServerError)
                               ELSE Redirect(<<Slash, "view", Slash>> \o conns[i].title,
                                             StatusFound)]
    /\ UNCHANGED <<phase, templates, mux, files, req, resp, called, ioLog, lastSaved>>

NextConc ==
    \E i \in 1 .. 2 : ConnAccept(i) \/ ConnOpen(i) \/ ConnWrite(i) \/ ConnRespond(i)

SpecConc == InitConc /\ [][NextConc]_vars

---------------------------------------------------------------------------
(* What the claims speak of, stated on the request and the response alone *)

Alphanumeric == {"a", "Z", "0", "view", "edit", "save"}

ValidTitle(t) == Len(t) >= 1 /\ \A i \in 1 .. Len(t) : t[i] \in Alphanumeric

\* The path is /(view|edit|save)/[A-Za-z0-9]+ in full.
WellFormed(p) ==
    /\ Len(p) >= 4
    /\ p[1] = "/" /\ p[2] \in {"view", "edit", "save"} /\ p[3] = "/"
    /\ ValidTitle(SubSeq(p, 4, Len(p)))

TitleOf(p) == SubSeq(p, 4, Len(p))

Answered == resp # NoResponse

RequestFor(action) == Answered /\ WellFormed(req.path) /\ req.path[2] = action

\* The request's form field "body".
FormField(r) ==
    IF r.post.present THEN r.post.val
    ELSE IF r.query.present THEN r.query.val ELSE << >>

Stored(t) == Filename(t) \in DOMAIN files

\* The path has an empty, "." or ".." segment before its end: it is not in
\* canonical form.
NotCanonical(p) ==
    \E i \in 1 .. Len(p) - 1 :
        /\ p[i] = "/"
        /\ \/ p[i + 1] = "/"
           \/ p[i + 1] = "." /\ (i + 1 = Len(p) \/ p[i + 2] = "/")
           \/ /\ i + 2 <= Len(p)
              /\ p[i + 1] = "." /\ p[i + 2] = "."
              /\ (i + 2 = Len(p) \/ p[i + 3] = "/")

SubtreeRoot(p) == p \in {<<"/", "view">>, <<"/", "edit">>, <<"/", "save">>}

\* The store call of the last request failed.
StoreCallFailed == ioLog # << >> /\ ioLog[1].err # ""

---------------------------------------------------------------------------
(* C1 *)

---------------------------------------------------------------------------
(* C2 *)

\* C2: every store read and write uses a title of one or more alphanumeric
\* characters and the file data/<title>.txt, and a domain handler is given
\* only the title of a path that matched in full.
C2_StoreAccessValidated ==
    /\ \A i \in 1 .. Len(ioLog) :
         /\ ValidTitle(ioLog[i].title)
         /\ ioLog[i].name = <<"data", "/">> \o ioLog[i].title \o <<".txt">>
    /\ \A i \in 1 .. Len(called) :
         /\ WellFormed(req.path)
         /\ called[i].title = TitleOf(req.path)
         /\ ValidTitle(called[i].title)

C2_Witness ==
    /\ Answered
    /\ Len(ioLog) = 1
    /\ ioLog[1].op = "WriteFile"
    /\ ioLog[1].name = <<"data", "/", "Z", "0", ".txt">>

---------------------------------------------------------------------------
(* C3 *)

\* C3, as stated: a view of a title that has been saved is not redirected and
\* returns the body of the latest successful save of that title (the read of
\* the file itself not failing).
C3_ViewReturnsLastSaved ==
    (/\ RequestFor("view")
     /\ TitleOf(req.path) \in DOMAIN lastSaved
     /\ ~(Stored(TitleOf(req.path)) /\ StoreCallFailed)) =>
        /\ resp.status = 200
        /\ resp.page.Body = lastSaved[TitleOf(req.path)]

---------------------------------------------------------------------------
(* C4 *)

\* C4: a view of a valid title whose page cannot be loaded (no file, or the
\* read fails) is answered 302 to /edit/<title>, and no template is rendered.
C4_ViewMissingRedirectsToEdit ==
    (RequestFor("view") /\ (~Stored(TitleOf(req.path)) \/ StoreCallFailed)) =>
        /\ resp.status = 302
        /\ resp.location = <<"/", "edit", "/">> \o TitleOf(req.path)
        /\ resp.page = NoPage

C4_Witness ==
    /\ RequestFor("view")
    /\ ~Stored(TitleOf(req.path))
    /\ resp.status = 302

---------------------------------------------------------------------------
(* C5 *)

---------------------------------------------------------------------------
(* C6 *)

\* C6: a save of a valid title makes one write and ends in one of two ways:
\* the write succeeds, the answer is 302 to /view/<title> and the stored body
\* is the request's form field; or the write fails and the answer is 500 with
\* the error's message, and no redirect.
C6_SaveRedirectsOrFails ==
    RequestFor("save") =>
        /\ Len(ioLog) = 1
        /\ ioLog[1].op = "WriteFile"
        /\ IF ioLog[1].err = ""
           THEN /\ resp.status = 302
                /\ resp.location = <<"/", "view", "/">> \o TitleOf(req.path)
                /\ Stored(TitleOf(req.path))
                /\ files[Filename(TitleOf(req.path))] = FormField(req)
           ELSE /\ resp.status = 500
                /\ resp.msg = ioLog[1].err
                /\ resp.location = << >>

C6_Witness ==
    /\ RequestFor("save")
    /\ resp.status = 500
    /\ resp.msg = "write failed"

---------------------------------------------------------------------------
(* C7 *)

\* C7, as stated: a request for /save/<title> that is not a POST, and a
\* request for /view/<title> or /edit/<title> that is not a GET, is answered
\* 404 and writes nothing.
C7_OtherMethodsNotFound ==
    (/\ Answered
     /\ WellFormed(req.path)
     /\ req.method # (IF req.path[2] = "save" THEN "POST" ELSE "GET")) =>
        /\ resp.status = 404
        /\ \A i \in 1 .. Len(ioLog) : ioLog[i].op # "WriteFile"

---------------------------------------------------------------------------
(* C8 *)

\* C8, as stated: once two overlapping saves of one title have both written
\* and completed, both are answered 302 and the stored body is the body of one
\* of the two.
C8_LastWriteWins ==
    (/\ Len(conns) = 2
     /\ \A i \in 1 .. 2 : conns[i].pc = "done" /\ conns[i].err = "") =>
        /\ \A i \in 1 .. 2 : conns[i].resp.status = 302
        /\ files[<<"data", "/", "a", ".txt">>] \in {conns[1].body, conns[2].body}

---------------------------------------------------------------------------
(* C9 *)

StartupInvariant ==
    /\ phase = "panicked" => (mux = {} /\ ~Answered)
    /\ phase \in {"main", "serving", "fatal"} => templates = {<<"edit", ".html">>, <<"view", ".html">>}
    /\ Answered => (phase = "serving" /\ mux # {})

\* C9: the templates are loaded before the routes are registered; when either
\* fails the process stops with no route registered and no request served; a
\* request is served only with both templates loaded; and the template set
\* does not change once startup has loaded it.
C9_FailFastStartup ==
    /\ []StartupInvariant
    /\ [][phase # "init" => templates' = templates]_vars

C9_Witness ==
    /\ Answered
    /\ resp.status = 200
    /\ resp.page.tmpl = <<"view", ".html">>

---------------------------------------------------------------------------
(* C10 *)

\* C10: a view, an edit and a request answered 404 leave the files as they
\* were, and a write is made only under the save handler.
C10_OnlySaveWrites ==
    /\ [][(\/ resp'.status = 404
           \/ (WellFormed(req'.path) /\ req'.path[2] \in {"view", "edit"}))
          => files' = files]_vars
    /\ [](\A i \in 1 .. Len(ioLog) :
            ioLog[i].op = "WriteFile" => (WellFormed(req.path) /\ req.path[2] = "save"))

C10_Witness ==
    /\ RequestFor("edit")
    /\ resp.status = 200
    /\ ~Stored(TitleOf(req.path))
    /\ Stored(<<"a">>)

====
